---- MODULE Spec2Model ----
(***************************************************************************)
(* Model of cl650-random-failures (main.py): the override index built by   *)
(* Config, the trigger sampler and the scenario writer, as one run of      *)
(* main().                                                                 *)
(*                                                                         *)
(* Strings that the program compares or tests with startswith are          *)
(* sequences of character codes, so that str.__lt__ and str.startswith are *)
(* computed character by character.  An optional value (None or v) is the  *)
(* empty sequence or the one-element sequence <<v>>.                       *)
(***************************************************************************)
EXTENDS Integers, Sequences, FiniteSets, TLC

VARIABLES
    pc,            \* position of main(): start, loaded, sampling, done, aborted
    data,          \* the mapping yaml.safe_load returns for failure-config.yml
    failures_conf, \* the lines of failures.conf
    config,        \* the Config object (<< >> before Config.__init__ returns)
    failures,      \* the failure list load_failures returns
    idx,           \* number of catalog failures the loop of get_failure_triggers has taken
    failure,       \* the failure last passed to get_override_for_failure
    override,      \* what get_override_for_failure returned for it (None or <<entry>>)
    draws,         \* what random.random() returned, call by call: k stands for k / DrawGrid
    ndraws,        \* number of random values drawn so far (random, choice, randint)
    prob_dist,     \* the list get_failure_state_probability_distribution last returned
    triggers,      \* failures_with_triggers
    artifact,      \* the scenario file: None, or <<lines>> once opened for writing
    dry,           \* the --dry flag
    error          \* the exception that ended the run, "" if none

vars == <<pc, data, failures_conf, config, failures, idx, failure, override,
          draws, ndraws, prob_dist, triggers, artifact, dry, error>>

None == <<>>
Some(v) == <<v>>

(***************************************************************************)
(* Bounds of the model.                                                    *)
(***************************************************************************)
\* number of nodes written into the nested overrides mapping
MaxEntries == 3
\* number of lines of failures.conf
MaxCatalog == 2
\* random.random() returns k / DrawGrid for k in 0 .. DrawGrid - 1
DrawGrid == 2
\* in the runs of a whole catalog, random.randint(lo, hi) returns one of the
\* RandintEnds smallest or RandintEnds largest integers of lo .. hi
RandintEnds == 1

(***************************************************************************)
(* class FailureState(enum.IntEnum)                                        *)
(***************************************************************************)
NOT_FAILED == 0
ACTIVE == 1
IAS == 2
TAS == 3
GS == 4
V1 == 5
VR == 6
V2 == 7
VT == 8
AMSL == 9
AGL == 10
WAYPOINT == 11
EXACT_TIMEOUT == 12
APPROX_TIMEOUT == 13
LIFTOFF == 14
GEAR_UP == 15
GEAR_DOWN == 16
GEAR_CYCLED == 17
CTRL_F == 18

MAX_OPERATING_CEILING_M == 12497

FailureState == NOT_FAILED .. CTRL_F

triggerable_by_random_failure ==
    << ACTIVE, IAS, TAS, GS, V1, VR, V2, VT, AMSL, AGL,
       EXACT_TIMEOUT, APPROX_TIMEOUT, LIFTOFF, GEAR_UP, GEAR_DOWN, GEAR_CYCLED >>

(***************************************************************************)
(* Python str operations on sequences of character codes.                  *)
(***************************************************************************)
Slash == 47

\* str.startswith
startswith(s, prefix) ==
    /\ Len(prefix) <= Len(s)
    /\ \A k \in 1 .. Len(prefix) : s[k] = prefix[k]

\* str.__lt__ : lexicographic by code point, a proper prefix is smaller
RECURSIVE str_lt(_, _)
str_lt(a, b) ==
    IF b = <<>> THEN FALSE
    ELSE IF a = <<>> THEN TRUE
    ELSE IF Head(a) # Head(b) THEN Head(a) < Head(b)
    ELSE str_lt(Tail(a), Tail(b))

(***************************************************************************)
(* The nested overrides mapping.  A mapping node is                        *)
(*   [kw |-> the reserved keys it carries with their values,               *)
(*    children |-> its other items <<key, node>> in dict order].           *)
(***************************************************************************)
keywords == << "state", "param", "mtbf_hours", "mult" >>

EmptyNode == [kw |-> << >>, children |-> << >>]

\* FailureOverrideEntry.__init__ : kw is a sequence of <<keyword, value>>
KwGet(kw, name) ==
    IF \E k \in 1 .. Len(kw) : kw[k][1] = name
    THEN Some(kw[CHOOSE k \in 1 .. Len(kw) : kw[k][1] = name][2])
    ELSE None

KwHas(kw, name) == \E k \in 1 .. Len(kw) : kw[k][1] = name

FailureOverrideEntry(origin, kw) ==
    [ failure |-> origin,
      state |-> KwGet(kw, "state"),
      param |-> KwGet(kw, "param"),
      mtbf_hours |-> KwGet(kw, "mtbf_hours"),
      probability_multiplier |-> KwGet(kw, "mult") ]

RECURSIVE KeywordEntries(_, _, _)
KeywordEntries(node, origin, k) ==
    IF k > Len(keywords) THEN << >>
    ELSE (IF KwHas(node.kw, keywords[k])
          THEN << FailureOverrideEntry(origin, node.kw) >>
          ELSE << >>)
         \o KeywordEntries(node, origin, k + 1)

RECURSIVE get_failure_override_entries(_, _)
RECURSIVE ChildEntries(_, _, _)
ChildEntries(node, origin, c) ==
    IF c > Len(node.children) THEN << >>
    ELSE get_failure_override_entries(node.children[c][2],
                                      origin \o << Slash >> \o node.children[c][1])
         \o ChildEntries(node, origin, c + 1)

get_failure_override_entries(override_config, prepend_origin) ==
    KeywordEntries(override_config, prepend_origin, 1)
    \o ChildEntries(override_config, prepend_origin, 1)

\* FailureOverrideEntry.__lt__
entry_lt(self, other) == str_lt(self.failure, other.failure)

\* sorted(entries, reverse=True): a stable sort into descending order, equal
\* elements keeping their original relative order
RECURSIVE InsertDescending(_, _)
InsertDescending(sorted, e) ==
    IF sorted = << >> THEN << e >>
    ELSE IF entry_lt(Head(sorted), e) THEN << e >> \o sorted
    ELSE << Head(sorted) >> \o InsertDescending(Tail(sorted), e)

RECURSIVE SortDescending(_, _)
SortDescending(done, rest) ==
    IF rest = << >> THEN done
    ELSE SortDescending(InsertDescending(done, Head(rest)), Tail(rest))

\* sorted(entries) without reverse=True
RECURSIVE InsertAscending(_, _)
InsertAscending(sorted, e) ==
    IF sorted = << >> THEN << e >>
    ELSE IF entry_lt(e, Head(sorted)) THEN << e >> \o sorted
    ELSE << Head(sorted) >> \o InsertAscending(Tail(sorted), e)

RECURSIVE SortAscending(_, _)
SortAscending(done, rest) ==
    IF rest = << >> THEN done
    ELSE SortAscending(InsertAscending(done, Head(rest)), Tail(rest))

sorted_not_reversed(entries) == SortAscending(<< >>, entries)

sorted_reverse(entries) == SortDescending(<< >>, entries)

\* get_override_for_failure without its startswith test
RECURSIVE ScanOverridesExactOnly(_, _, _)
ScanOverridesExactOnly(overrides, f, k) ==
    IF k > Len(overrides) THEN None
    ELSE IF overrides[k].failure = f THEN Some(overrides[k])
    ELSE ScanOverridesExactOnly(overrides, f, k + 1)

\* Config.get_override_for_failure
RECURSIVE ScanOverrides(_, _, _)
ScanOverrides(overrides, f, k) ==
    IF k > Len(overrides) THEN None
    ELSE IF overrides[k].failure = f THEN Some(overrides[k])
    ELSE IF startswith(f, overrides[k].failure) THEN Some(overrides[k])
    ELSE ScanOverrides(overrides, f, k + 1)

get_override_for_failure(self, f) == ScanOverrides(self.overrides, f, 1)

(***************************************************************************)
(* State-probability overrides.                                            *)
(***************************************************************************)
FAILURE_STATE_DISPLAY_NAMES ==
    << <<"not-failed", NOT_FAILED>>, <<"active", ACTIVE>>, <<"ias", IAS>>,
       <<"tas", TAS>>, <<"gs", GS>>, <<"v1", V1>>, <<"vr", VR>>, <<"v2", V2>>,
       <<"vt", VT>>, <<"amsl", AMSL>>, <<"agl", AGL>>, <<"waypoint", WAYPOINT>>,
       <<"exact-timeout", EXACT_TIMEOUT>>, <<"approx-timeout", APPROX_TIMEOUT>>,
       <<"liftoff", LIFTOFF>>, <<"gear-up", GEAR_UP>>, <<"gear-down", GEAR_DOWN>>,
       <<"gear-cycled", GEAR_CYCLED>>, <<"ctrl-f", CTRL_F>> >>

\* FAILURE_STATE_DISPLAY_NAMES.get(state_name)
DisplayNameGet(state_name) == KwGet(FAILURE_STATE_DISPLAY_NAMES, state_name)

StateProbabilityOverrideEntry(state, multiplier) ==
    [state |-> state, multiplier |-> multiplier]

\* _get_state_probability_override_entries: the entries, or the exception
\* the first defective item raises
RECURSIVE StateEntriesFrom(_, _, _)
StateEntriesFrom(override_config, k, entries) ==
    IF k > Len(override_config) THEN [error |-> "", entries |-> entries]
    ELSE LET state_name == override_config[k][1]
             multiplier == override_config[k][2]
             state      == DisplayNameGet(state_name)
         IN  IF ~(multiplier >= 0)
             THEN [error |-> "AssertionError", entries |-> << >>]
             ELSE IF state = None
             THEN [error |-> "ValueError", entries |-> << >>]
             ELSE StateEntriesFrom(override_config, k + 1,
                      Append(entries, StateProbabilityOverrideEntry(state[1], multiplier)))

get_state_probability_override_entries(override_config) ==
    StateEntriesFrom(override_config, 1, << >>)

\* StateProbabilityOverrideEntry.__lt__
state_entry_lt(self, other) == self.state < other.state

RECURSIVE InsertStateDescending(_, _)
InsertStateDescending(sorted, e) ==
    IF sorted = << >> THEN << e >>
    ELSE IF state_entry_lt(Head(sorted), e) THEN << e >> \o sorted
    ELSE << Head(sorted) >> \o InsertStateDescending(Tail(sorted), e)

RECURSIVE SortStateDescending(_, _)
SortStateDescending(done, rest) ==
    IF rest = << >> THEN done
    ELSE SortStateDescending(InsertStateDescending(done, Head(rest)), Tail(rest))

sorted_reverse_states(entries) == SortStateDescending(<< >>, entries)

(***************************************************************************)
(* Config.__init__                                                         *)
(***************************************************************************)
\* FailureState(state) in FailureOverrideEntry.__init__ raises ValueError
\* for a number that is no member of the enumeration
RECURSIVE HasInvalidState(_)
RECURSIVE AnyChildInvalid(_, _)
AnyChildInvalid(node, c) ==
    /\ c <= Len(node.children)
    /\ \/ HasInvalidState(node.children[c][2])
       \/ AnyChildInvalid(node, c + 1)

HasInvalidState(node) ==
    \/ /\ KwHas(node.kw, "state")
       /\ KwGet(node.kw, "state")[1] \notin FailureState
    \/ AnyChildInvalid(node, 1)

\* data.get(key, default)
DataGet(d, key, default) == IF d[key] = None THEN default ELSE d[key][1]

\* The Config object, or the exception __init__ raises
ConfigInit(d) ==
    LET bad(e)  == [error |-> e, config |-> << >>]
        tree    == DataGet(d, "overrides", EmptyNode)
        states  == get_state_probability_override_entries(
                       DataGet(d, "state_probability_overrides", << >>))
    IN  IF d.xplane_directory = None THEN bad("KeyError")
        ELSE IF d.expected_failures = None THEN bad("KeyError")
        ELSE IF d.mtbf_hours = None THEN bad("KeyError")
        ELSE IF HasInvalidState(tree) THEN bad("ValueError")
        ELSE IF states.error # "" THEN bad(states.error)
        ELSE [ error |-> "",
               config |->
                 [ expected_failures |-> d.expected_failures[1],
                   mtbf_hours |-> d.mtbf_hours[1],
                   overrides |->
                       sorted_reverse(get_failure_override_entries(tree, << >>)),
                   state_probability_overrides |->
                       sorted_reverse_states(states.entries) ] ]

\* Config.get_state_probability_override
RECURSIVE ScanStateOverrides(_, _, _)
ScanStateOverrides(entries, state, k) ==
    IF k > Len(entries) THEN None
    ELSE IF entries[k].state = state THEN Some(entries[k])
    ELSE ScanStateOverrides(entries, state, k + 1)

get_state_probability_override(self, state) ==
    ScanStateOverrides(self.state_probability_overrides, state, 1)

\* the raw weights: np.ones(16) with the overridden multipliers written in
Weights(self) ==
    [ i \in 1 .. Len(triggerable_by_random_failure) |->
        LET o == get_state_probability_override(self, triggerable_by_random_failure[i])
        IN  IF o # None THEN o[1].multiplier ELSE 1 ]

RECURSIVE SumTo(_, _)
SumTo(w, k) == IF k = 0 THEN 0 ELSE w[k] + SumTo(w, k - 1)

\* Config.get_failure_state_probability_distribution: element i is the
\* quotient <<numerator, denominator>>; numpy's x / 0.0 is nan (or inf), it
\* raises nothing, so the quotient by a zero sum is returned like any other
get_failure_state_probability_distribution(self) ==
    LET distribution == Weights(self)
        total        == SumTo(distribution, Len(triggerable_by_random_failure))
    IN  [ i \in 1 .. Len(triggerable_by_random_failure) |-> << distribution[i], total >> ]

IsNaN(q) == q[2] = 0

(***************************************************************************)
(* The timeout bounds.  mtbf_hours is the number n / 2^k, written <<n, k>>,*)
(* a value a Python float (or int, k = 0) holds exactly.                   *)
(***************************************************************************)
RECURSIVE Pow2(_)
Pow2(k) == IF k = 0 THEN 1 ELSE 2 * Pow2(k - 1)

RECURSIVE Log2(_)
Log2(p) == IF p = 1 THEN 0 ELSE 1 + Log2(p \div 2)

\* the largest power of two p, from p on, with 3 * p <= bound
RECURSIVE LargestPow2(_, _)
LargestPow2(p, bound) ==
    IF 3 * (2 * p) <= bound THEN LargestPow2(2 * p, bound) ELSE p

Abs(n) == IF n < 0 THEN 0 - n ELSE n
Sign(n) == IF n < 0 THEN 0 - 1 ELSE IF n > 0 THEN 1 ELSE 0

\* int(mtbf_hours / 3 * 60), as IEEE double arithmetic computes it.  With
\* x = a / 2^k > 0 and 3 not dividing a, the quotient x / 3 is rounded to
\* 53 bits: down when the dropped part is a third of the last place, up
\* when it is two thirds (which of the two is told by a mod 3 and the parity
\* of the binary exponent).  The product by 60 is then 20 x less or more 20
\* units in that last place, and is rounded again: it falls to the double
\* just below 20 x only if the quotient was rounded down and 20 x lies less
\* than 6 binary places above the quotient.  int() then gives 20 x - 1 when
\* 20 x is an integer, and the integer part of 20 x in every other case.
\* (mtbf_hours = 49: 979, not 980.)
int_mtbf_div_3_times_60(mtbf_hours) ==
    LET a      == Abs(mtbf_hours[1])
        d      == Pow2(mtbf_hours[2])
        p4     == LargestPow2(1, 4 * a)         \* 4 * 2^e, 2^e <= x * 2^k / 3 < 2^(e+1)
        third  == IF Log2(p4) % 2 = 0 THEN a % 3 ELSE (2 * a) % 3
        short  == /\ a % 3 # 0
                  /\ third = 1
                  /\ 5 * a < 4 * p4
                  /\ (20 * a) % d = 0
    IN  Sign(mtbf_hours[1]) * (((20 * a) \div d) - (IF short THEN 1 ELSE 0))

\* int(mtbf_hours * 3 * 60): both products are exact
int_mtbf_times_3_times_60(mtbf_hours) ==
    Sign(mtbf_hours[1]) * ((180 * Abs(mtbf_hours[1])) \div Pow2(mtbf_hours[2]))

\* FailureState.get_parameter_range_for_failure_state: None or <<(lo, hi)>>
get_parameter_range_for_failure_state(self, failure_state) ==
    IF failure_state = ACTIVE THEN None
    ELSE IF failure_state \in {IAS, TAS} THEN Some(<<1, 330>>)
    ELSE IF failure_state = GS THEN Some(<<1, 520>>)
    ELSE IF failure_state \in {V1, VR, V2, VT} THEN Some(<<-30, 30>>)
    ELSE IF failure_state = AMSL THEN Some(<<-100, MAX_OPERATING_CEILING_M>>)
    ELSE IF failure_state = AGL THEN Some(<<10, 2500>>)
    ELSE IF failure_state \in {EXACT_TIMEOUT, APPROX_TIMEOUT}
         THEN Some(<< int_mtbf_div_3_times_60(self.mtbf_hours),
                      int_mtbf_times_3_times_60(self.mtbf_hours) >>)
    ELSE IF failure_state = LIFTOFF THEN Some(<<1, 90>>)
    ELSE None

(***************************************************************************)
(* The trigger sampler.                                                    *)
(***************************************************************************)
\* random.random(): a real of [0, 1), here a numerator over DrawGrid
random_random == 0 .. DrawGrid - 1

\* random.randint called with hi + 1
random_randint_past_end(lo, hi) == lo .. hi + 1

\* random.randint(lo, hi): any integer of lo .. hi, both ends included
\* (none when lo > hi: ValueError)
random_randint(lo, hi) == lo .. hi

\* the random source of the runs of a whole catalog: random_randint cut down
\* to the RandintEnds integers at each end of the range
randint_ends(lo, hi) ==
    random_randint(lo, IF hi < lo + RandintEnds - 1 THEN hi ELSE lo + RandintEnds - 1)
        \cup random_randint(IF lo > hi - RandintEnds + 1 THEN lo ELSE hi - RandintEnds + 1, hi)

\* the random.randint of a run: source is "randint" or "ends"
randint_from(source, lo, hi) ==
    IF source = "randint" THEN random_randint(lo, hi) ELSE randint_ends(lo, hi)

\* np.random.choice(trigger_choices, 1, p=prob_dist): the positions it can
\* return, those of positive probability
np_random_choice(p) == { i \in DOMAIN p : p[i][1] > 0 }

\* a forced kind returned without the override's parameter
forced_trigger_without_param(f, o) == << f, o[1].state[1], None >>

\* the return of get_random_trigger when the override forces a kind
forced_trigger(f, o) == << f, o[1].state[1], o[1].param >>

\* get_random_trigger: the set of its outcomes over the random source.  An
\* outcome is the triple it returns or the exception it raises, with the
\* distribution it built (<< >> if none) and the number of random values
\* drawn.  source names the random.randint of the run.
RandomTriggerFrom(source, self, f, o) ==
    IF o # None /\ o[1].state # None
    THEN { [error |-> "", trigger |-> forced_trigger(f, o), dist |-> << >>, calls |-> 0] }
    ELSE LET dist == get_failure_state_probability_distribution(self)
         IN  IF \E i \in DOMAIN dist : IsNaN(dist[i])
             THEN \* np.random.choice: ValueError, probabilities contain NaN
                  { [error |-> "ValueError", trigger |-> << >>, dist |-> dist, calls |-> 0] }
             ELSE UNION {
                    LET trigger == triggerable_by_random_failure[i]
                        param_range == get_parameter_range_for_failure_state(self, trigger)
                    IN  IF param_range = None
                        THEN { [error |-> "", trigger |-> << f, trigger, None >>,
                                dist |-> dist, calls |-> 1] }
                        ELSE IF param_range[1][1] > param_range[1][2]
                        THEN \* random.randint: ValueError, empty range
                             { [error |-> "ValueError", trigger |-> << >>,
                                dist |-> dist, calls |-> 1] }
                        ELSE { [error |-> "", trigger |-> << f, trigger, Some(v) >>,
                                dist |-> dist, calls |-> 2]
                               : v \in randint_from(source, param_range[1][1], param_range[1][2]) }
                    : i \in np_random_choice(dist) }

get_random_trigger(self, f, o) == RandomTriggerFrom("randint", self, f, o)

\* failure_chance = config.expected_failures / len(failure_list), a quotient
failure_chance(self, failure_list) == << self.expected_failures, Len(failure_list) >>

\* mult of get_failure_triggers
multiplier_of(o) ==
    IF o = None \/ o[1].probability_multiplier = None
    THEN 1
    ELSE o[1].probability_multiplier[1]

\* random.random() < failure_chance * mult, for the draw d / DrawGrid
below_chance(d, chance, mult) == d * chance[2] < chance[1] * mult * DrawGrid

(***************************************************************************)
(* load_failures and write_failures_to_scenario                            *)
(***************************************************************************)
\* a line of failures.conf is << path >> when it matches FAIL\t(/[\w/]+),
\* and << >> when it does not
RECURSIVE load_failures(_)
load_failures(lines) ==
    IF lines = << >> THEN << >>
    ELSE (IF Head(lines) # None THEN << Head(lines)[1] >> ELSE << >>)
         \o load_failures(Tail(lines))

CommentLine == [kind |-> "comment", failure |-> << >>, value |-> 0]
StateLine(f, state) == [kind |-> "state", failure |-> f, value |-> state]
ParamLine(f, param) == [kind |-> "param", failure |-> f, value |-> param]

RECURSIVE TriggerLines(_)
TriggerLines(failure_list) ==
    IF failure_list = << >> THEN << >>
    ELSE LET t == Head(failure_list)
         IN  << StateLine(t[1], t[2]) >>
             \o (IF t[3] # None THEN << ParamLine(t[1], t[3][1]) >> ELSE << >>)
             \o TriggerLines(Tail(failure_list))

write_failures_to_scenario(failure_list) ==
    << CommentLine, CommentLine >> \o TriggerLines(failure_list)

(***************************************************************************)
(* Inputs: failure-config.yml, failures.conf, the command line.            *)
(***************************************************************************)
\* the nested mapping with node `path` (a sequence of keys) carrying `kw`;
\* a new key goes to the end of its mapping, as in a Python dict
RECURSIVE DictSet(_, _, _)
DictSet(node, path, kw) ==
    IF path = << >> THEN [node EXCEPT !.kw = kw]
    ELSE LET key == Head(path)
             at  == { c \in 1 .. Len(node.children) : node.children[c][1] = key }
         IN  IF at = {}
             THEN [node EXCEPT !.children =
                       Append(@, << key, DictSet(EmptyNode, Tail(path), kw) >>)]
             ELSE LET c == CHOOSE c \in at : TRUE
                  IN  [node EXCEPT !.children[c] =
                           << key, DictSet(node.children[c][2], Tail(path), kw) >>]

RECURSIVE DictOf(_)
DictOf(items) ==
    IF items = << >> THEN EmptyNode
    ELSE LET last == items[Len(items)]
         IN  DictSet(DictOf(SubSeq(items, 1, Len(items) - 1)), last[1], last[2])

\* keys of the overrides mapping: "a", "b", "ab", "a-", "a/b"
KeyA == << 97 >>
KeyB == << 98 >>
KeyAB == << 97, 98 >>
KeyADash == << 97, 45 >>
KeyASlashB == << 97, Slash, 98 >>

\* failure paths: "/a", "/b", "/a/b", "/a/b/a", "/ab", "/a-b"
PathA == << Slash, 97 >>
PathB == << Slash, 98 >>
PathAB == << Slash, 97, Slash, 98 >>
PathABA == << Slash, 97, Slash, 98, Slash, 97 >>
PathAb == << Slash, 97, 98 >>
PathADashB == << Slash, 97, 45, 98 >>

SeqsUpTo(S, n) == UNION { [1 .. m -> S] : m \in 0 .. n }

\* the overrides mappings the index is built from
BuildNodePaths ==
    { << >>, << KeyA >>, << KeyB >>, << KeyA, KeyB >>, << KeyASlashB >>,
      << KeyAB >>, << KeyADash >> }

BuildKeywordItems ==
    { << <<"state", ACTIVE>> >>,
      << <<"param", 5>>, <<"state", AGL>> >>,
      << <<"mult", 0>>, <<"mtbf_hours", 7>> >> }

BuildOverrides ==
    { DictOf(items) : items \in SeqsUpTo(BuildNodePaths \X BuildKeywordItems, MaxEntries) }

ProbeFailures == { PathA, PathB, PathAB, PathABA, PathAb, PathADashB }

\* the overrides mappings of the full runs:
\*   a: {state: 1}
\*   a: {mult: 2, b: {state: 11, param: 7, mult: 2}};  b: {mult: 0}
\*   a: {param: 3, b: {state: 10, param: 100}}
\*   b: {state: 99}
RunOverrides ==
    { DictOf(<< << <<KeyA>>, << <<"state", ACTIVE>> >> >> >>),
      DictOf(<< << <<KeyA>>, << <<"mult", 2>> >> >>,
                << <<KeyA, KeyB>>, << <<"state", WAYPOINT>>, <<"param", 7>>, <<"mult", 2>> >> >>,
                << <<KeyB>>, << <<"mult", 0>> >> >> >>),
      DictOf(<< << <<KeyA>>, << <<"param", 3>> >> >>,
                << <<KeyA, KeyB>>, << <<"state", AGL>>, <<"param", 100>> >> >> >>),
      DictOf(<< << <<KeyB>>, << <<"state", 99>> >> >> >>) }

\* state_probability_overrides of the full runs
EligibleNames ==
    { "active", "ias", "tas", "gs", "v1", "vr", "v2", "vt", "amsl", "agl",
      "exact-timeout", "approx-timeout", "liftoff", "gear-up", "gear-down", "gear-cycled" }

RECURSIVE SeqOfSet(_)
SeqOfSet(S) ==
    IF S = {} THEN << >>
    ELSE LET x == CHOOSE x \in S : TRUE IN << x >> \o SeqOfSet(S \ {x})

AllZero(names) == LET order == SeqOfSet(names)
                  IN  [k \in 1 .. Len(order) |-> << order[k], 0 >>]

RunStateOverrides ==
    { AllZero(EligibleNames),
      AllZero(EligibleNames \ {"agl", "gear-up"}) \o << <<"agl", 2>>, <<"waypoint", 3>> >>,
      << <<"ias", 0>>, <<"barometric", 1>> >>,
      << <<"agl", -1>> >> }

RunData ==
    [ xplane_directory : { Some("~/X-Plane 12") },
      expected_failures : { None, Some(1), Some(2) },
      mtbf_hours : { Some(<<30, 0>>) },
      overrides : { None } \cup { Some(t) : t \in RunOverrides },
      state_probability_overrides : { None } \cup { Some(m) : m \in RunStateOverrides } ]

BuildData ==
    [ xplane_directory : { Some("~/X-Plane 12") },
      expected_failures : { Some(1) },
      mtbf_hours : { Some(<<30, 0>>) },
      overrides : { Some(t) : t \in BuildOverrides },
      state_probability_overrides : { None } ]

\* failures.conf: distinct lines, a line being a failure or something else
CatalogLines == { None, Some(PathAB), Some(PathB) }

RunCatalogs ==
    { lines \in SeqsUpTo(CatalogLines, MaxCatalog) :
        \A j, k \in DOMAIN lines : j # k => lines[j] # lines[k] }

(***************************************************************************)
(* main()                                                                  *)
(***************************************************************************)
InitWith(datas, catalogs, flags) ==
    /\ pc = "start"
    /\ data \in datas
    /\ failures_conf \in catalogs
    /\ dry \in flags
    /\ config = << >>
    /\ failures = << >>
    /\ idx = 0
    /\ failure = << >>
    /\ override = None
    /\ draws = << >>
    /\ ndraws = 0
    /\ prob_dist = << >>
    /\ triggers = << >>
    /\ artifact = None
    /\ error = ""

Init == InitWith(RunData, RunCatalogs, BOOLEAN)

\* config = load_config()
LoadConfig ==
    /\ pc = "start"
    /\ LET r == ConfigInit(data)
       IN  IF r.error # ""
           THEN /\ pc' = "aborted"
                /\ error' = r.error
                /\ UNCHANGED config
           ELSE /\ pc' = "loaded"
                /\ config' = r.config
                /\ UNCHANGED error
    /\ UNCHANGED << data, failures_conf, failures, idx, failure, override, draws, ndraws,
                    prob_dist, triggers, artifact, dry >>

\* main() without its assertion
catalog_unchecked(failure_list) == TRUE

\* assert len(failures) > 0
catalog_ok(failure_list) == Len(failure_list) > 0

\* failures = load_failures(config); assert len(failures) > 0;
\* entry of get_failure_triggers
LoadFailures ==
    /\ pc = "loaded"
    /\ failures' = load_failures(failures_conf)
    /\ IF catalog_ok(failures')
       THEN pc' = "sampling" /\ UNCHANGED error
       ELSE pc' = "aborted" /\ error' = "AssertionError"
    /\ UNCHANGED << data, failures_conf, config, idx, failure, override, draws, ndraws,
                    prob_dist, triggers, artifact, dry >>

\* one iteration of the loop of get_failure_triggers, random.randint being
\* the one source names
SampleFrom(source) ==
    /\ pc = "sampling"
    /\ idx < Len(failures)
    /\ LET f      == failures[idx + 1]
           o      == get_override_for_failure(config, f)
           chance == failure_chance(config, failures)
           mult   == multiplier_of(o)
       IN  /\ failure' = f
           /\ override' = o
           /\ idx' = idx + 1
           /\ \E d \in random_random :
                /\ draws' = Append(draws, d)
                /\ IF below_chance(d, chance, mult)
                   THEN \E r \in RandomTriggerFrom(source, config, f, o) :
                          /\ ndraws' = ndraws + 1 + r.calls
                          /\ prob_dist' = IF r.dist = << >> THEN prob_dist ELSE r.dist
                          /\ IF r.error # ""
                             THEN /\ pc' = "aborted"
                                  /\ error' = r.error
                                  /\ UNCHANGED triggers
                             ELSE /\ triggers' = Append(triggers, r.trigger)
                                  /\ UNCHANGED << pc, error >>
                   ELSE /\ ndraws' = ndraws + 1
                        /\ UNCHANGED << pc, error, prob_dist, triggers >>
    /\ UNCHANGED << data, failures_conf, config, failures, artifact, dry >>

\* the iteration in a run of a whole catalog
SampleFailure == SampleFrom("ends")

\* the iteration with random.randint unrestricted
SampleFailureFull == SampleFrom("randint")

\* main() writing the scenario whatever --dry says
FinishIgnoringDry ==
    /\ pc = "sampling"
    /\ idx = Len(failures)
    /\ pc' = "done"
    /\ artifact' = Some(write_failures_to_scenario(triggers))
    /\ UNCHANGED << data, failures_conf, config, failures, idx, failure, override, draws,
                    ndraws, prob_dist, triggers, dry, error >>

\* get_failure_triggers returns; main prints and, unless --dry, writes
Finish ==
    /\ pc = "sampling"
    /\ idx = Len(failures)
    /\ pc' = "done"
    /\ artifact' = IF ~dry THEN Some(write_failures_to_scenario(triggers)) ELSE artifact
    /\ UNCHANGED << data, failures_conf, config, failures, idx, failure, override, draws,
                    ndraws, prob_dist, triggers, dry, error >>

Next == LoadConfig \/ LoadFailures \/ SampleFailure \/ Finish

Spec == Init /\ [][Next]_vars

(***************************************************************************)
(* The sampling of one failure over the whole of random.randint: a catalog *)
(* of one failure, no per-failure override, mtbf_hours 30, 49 and 24.5.    *)
(***************************************************************************)
SampleStateOverrides ==
    { AllZero(EligibleNames \ {"agl", "gear-up"}) \o << <<"agl", 2>>, <<"waypoint", 3>> >> }

SampleData ==
    [ xplane_directory : { Some("~/X-Plane 12") },
      expected_failures : { Some(1) },
      mtbf_hours : { Some(<<30, 0>>), Some(<<49, 0>>), Some(<<49, 1>>) },
      overrides : { None },
      state_probability_overrides : { None } \cup { Some(m) : m \in SampleStateOverrides } ]

InitSample == InitWith(SampleData, { << Some(PathB) >> }, { FALSE })

NextSample == LoadConfig \/ LoadFailures \/ SampleFailureFull \/ Finish

SpecSample == InitSample /\ [][NextSample]_vars

(***************************************************************************)
(* The override index alone: Config built from a mapping, then looked up.  *)
(***************************************************************************)
InitBuild == InitWith(BuildData, { << >> }, BOOLEAN)

\* config.get_override_for_failure(f)
Lookup ==
    /\ pc = "loaded"
    /\ \E f \in ProbeFailures :
         /\ failure' = f
         /\ override' = get_override_for_failure(config, f)
    /\ UNCHANGED << pc, data, failures_conf, config, failures, idx, draws, ndraws,
                    prob_dist, triggers, artifact, dry, error >>

NextBuild == LoadConfig \/ Lookup

SpecBuild == InitBuild /\ [][NextBuild]_vars

(***************************************************************************)
(* Properties of the override index (SpecBuild).                           *)
(***************************************************************************)
\* p is a string-prefix of s
IsPrefixOf(p, s) == Len(p) <= Len(s) /\ SubSeq(s, 1, Len(p)) = p

\* a sorts before b in lexicographic order of character codes
LexLess(a, b) ==
    \E n \in 0 .. Len(a) :
        /\ n <= Len(b)
        /\ SubSeq(a, 1, n) = SubSeq(b, 1, n)
        /\ \/ n = Len(a) /\ n < Len(b)
           \/ n < Len(a) /\ n < Len(b) /\ a[n + 1] < b[n + 1]

LookedUp == pc = "loaded" /\ failure # << >>

\* positions of the stored overrides whose prefix is a string-prefix of the
\* failure looked up
Matching == { k \in 1 .. Len(config.overrides) :
                IsPrefixOf(config.overrides[k].failure, failure) }

FirstMatching == CHOOSE k \in Matching : \A j \in Matching : k <= j

\* C1: the override list is stored in descending lexicographic order of
\* prefix, and get_override_for_failure returns the first stored entry whose
\* prefix is a string-prefix of the failure path, and no override exactly
\* when no stored prefix is a string-prefix of the path.
C1_FirstMatchInStoredOrder ==
    LookedUp =>
        /\ \A j, k \in 1 .. Len(config.overrides) :
               j < k => ~LexLess(config.overrides[j].failure, config.overrides[k].failure)
        /\ (override = None) <=> (Matching = {})
        /\ Matching # {} => override = Some(config.overrides[FirstMatching])

\* C1 witness: a lookup that passed over a non-matching entry and returned a
\* later one, in a list holding a second match further down
C1_Witness ==
    /\ LookedUp
    /\ Cardinality(Matching) >= 2
    /\ FirstMatching > 1
    /\ override = Some(config.overrides[FirstMatching])

\* C10: when several stored prefixes are string-prefixes of the path, the
\* override returned has the longest of them.
C10_LongestPrefixWins ==
    (LookedUp /\ Matching # {}) =>
        /\ override # None
        /\ \A k \in Matching :
               Len(config.overrides[k].failure) <= Len(override[1].failure)

\* C10 witness: two matching prefixes of different lengths, the longer one
\* returned, and a third entry stored between or before them
C10_Witness ==
    /\ LookedUp
    /\ override # None
    /\ \E k \in Matching : Len(config.overrides[k].failure) < Len(override[1].failure)
    /\ \E k \in 1 .. Len(config.overrides) : k \notin Matching

\* nodes of a mapping that carry at least one of the four reserved keys
RECURSIVE KeywordNodes(_)
RECURSIVE KeywordNodesBelow(_, _)
KeywordNodesBelow(node, c) ==
    IF c > Len(node.children) THEN 0
    ELSE KeywordNodes(node.children[c][2]) + KeywordNodesBelow(node, c + 1)

KeywordNodes(node) ==
    (IF \E k \in 1 .. Len(node.kw) :
            node.kw[k][1] \in {"state", "param", "mtbf_hours", "mult"}
     THEN 1 ELSE 0)
    + KeywordNodesBelow(node, 1)

\* C2: the override list holds exactly one entry per node that carries at
\* least one of the keys state, param, mtbf_hours, mult.
C2_OneEntryPerNode ==
    pc = "loaded" => Len(config.overrides) = KeywordNodes(data.overrides[1])

(***************************************************************************)
(* Properties of a run of main() (Spec).                                   *)
(***************************************************************************)
\* the override get_failure_triggers resolves for a failure, and whether it
\* forces a kind
Resolved(f) == get_override_for_failure(config, f)
Forced(f) == Resolved(f) # None /\ Resolved(f)[1].state # None

\* C3: a triple emitted for a failure whose resolved override forces a kind
\* carries that kind and the override's parameter (absent if it has none),
\* whatever the random source returned: the triple is a function of the
\* configuration and the failure alone, so two runs that differ only in
\* their draws emit the same (kind, parameter) for it.
C3_ForcedKindIgnoresRandomness ==
    \A k \in 1 .. Len(triggers) :
        Forced(triggers[k][1]) =>
            /\ triggers[k][2] = Resolved(triggers[k][1])[1].state[1]
            /\ triggers[k][3] = Resolved(triggers[k][1])[1].param

\* C3 witness: a finished run that emitted a forced failure without a
\* parameter next to a randomly sampled one
C3_Witness ==
    /\ pc = "done"
    /\ Len(triggers) = 2
    /\ \E j, k \in 1 .. 2 :
         /\ Forced(triggers[j][1]) /\ triggers[j][3] = None
         /\ ~Forced(triggers[k][1])

\* draw k was below base_chance x multiplier for the k-th catalog failure:
\* draws[k] / DrawGrid < expected_failures / len(catalog) x multiplier
Multiplier(f) ==
    IF Resolved(f) # None /\ Resolved(f)[1].probability_multiplier # None
    THEN Resolved(f)[1].probability_multiplier[1]
    ELSE 1

Hit(k) ==
    draws[k] * Len(failures) <
        DrawGrid * config.expected_failures * Multiplier(failures[k])

RECURSIVE HitFailures(_)
HitFailures(n) ==
    IF n = 0 THEN << >>
    ELSE HitFailures(n - 1) \o (IF Hit(n) THEN << failures[n] >> ELSE << >>)

TriggeredFailures == [k \in 1 .. Len(triggers) |-> triggers[k][1]]

\* C4: once the loop has taken n catalog failures, the triples collected
\* are those of exactly the failures among them whose draw was below
\* base_chance x multiplier, one each, in catalog order.
C4_ExactlyTheHits ==
    pc \in {"sampling", "done", "aborted"} /\ idx > 0 =>
        /\ Len(draws) = idx
        /\ TriggeredFailures = HitFailures(idx)

\* C4 holds of the runs that get_random_trigger does not end with an
\* exception, and of those get_failure_triggers returns the full list
C4_ExactlyTheHitsUnlessRaised ==
    pc \in {"sampling", "done"} =>
        /\ Len(draws) = idx
        /\ TriggeredFailures = HitFailures(idx)
        /\ pc = "done" => idx = Len(failures)

\* every one of the 16 eligible kinds has a multiplier of 0 in the
\* configuration file
ZeroSum ==
    LET items == DataGet(data, "state_probability_overrides", << >>)
    IN  \A i \in 1 .. Len(triggerable_by_random_failure) :
            \E k \in 1 .. Len(items) :
                /\ DisplayNameGet(items[k][1]) = Some(triggerable_by_random_failure[i])
                /\ items[k][2] = 0

\* C5: no kind distribution is returned when every eligible kind has a
\* multiplier of 0.
C5_ZeroSumIsRejected ==
    Len(prob_dist) > 0 => ~ZeroSum

\* C6: a run that ends with an error has drawn no random value before.
C6_ErrorsBeforeAnyDraw ==
    error # "" => ndraws = 0

EmptyCatalog == \A k \in 1 .. Len(failures_conf) : failures_conf[k] = None

\* C7: with no failure in failures.conf the run never samples and never
\* writes: it is aborted by the assertion of main() as soon as a valid
\* configuration is loaded.
C7_EmptyCatalogAborts ==
    EmptyCatalog =>
        /\ pc \in {"start", "loaded", "aborted"}
        /\ ndraws = 0
        /\ triggers = << >>
        /\ artifact = None
        /\ (pc = "aborted" /\ ConfigInit(data).error = "") => error = "AssertionError"

\* C7 witness: a failures.conf with lines but no failure, the configuration
\* valid, the run aborted
C7_Witness ==
    /\ EmptyCatalog
    /\ Len(failures_conf) > 0
    /\ ConfigInit(data).error = ""
    /\ pc = "aborted"
    /\ error = "AssertionError"

\* number of lines the first n triples take in the scenario file
RECURSIVE LinesOf(_)
LinesOf(n) ==
    IF n = 0 THEN 0
    ELSE LinesOf(n - 1) + (IF triggers[n][3] # None THEN 2 ELSE 1)

\* C8: the scenario file exists only in a run that is not --dry, ended
\* without an error and has sampled the whole catalog; after its two
\* comment lines it holds, for each triple in order, a state line, followed
\* by a param line exactly when the triple's parameter is present.
C8_ArtifactAfterSamplingOnly ==
    artifact # None =>
        /\ pc = "done"
        /\ ~dry
        /\ error = ""
        /\ idx = Len(failures)
        /\ Len(draws) = Len(failures)
        /\ LET lines == artifact[1]
           IN  /\ Len(lines) = 2 + LinesOf(Len(triggers))
               /\ lines[1].kind = "comment" /\ lines[2].kind = "comment"
               /\ \A k \in 1 .. Len(triggers) :
                    /\ lines[2 + LinesOf(k - 1) + 1] =
                         [kind |-> "state", failure |-> triggers[k][1],
                          value |-> triggers[k][2]]
                    /\ triggers[k][3] # None =>
                         lines[2 + LinesOf(k - 1) + 2] =
                           [kind |-> "param", failure |-> triggers[k][1],
                            value |-> triggers[k][3][1]]

\* C8 witness: a file written for two triples, the first with a parameter
\* and the second without
C8_Witness ==
    /\ artifact # None
    /\ Len(triggers) = 2
    /\ triggers[1][3] # None
    /\ triggers[2][3] = None
    /\ Len(artifact[1]) = 5

\* the multiplier the configuration file gives a kind is 0
ZeroMultiplier(kind) ==
    LET items == DataGet(data, "state_probability_overrides", << >>)
    IN  \E k \in 1 .. Len(items) :
            DisplayNameGet(items[k][1]) = Some(kind) /\ items[k][2] = 0

\* C9: a triple emitted for a failure without a forced kind has one of the
\* 16 eligible kinds, never one of multiplier 0; its parameter is absent
\* exactly for ACTIVE, GEAR_UP, GEAR_DOWN, GEAR_CYCLED and otherwise lies in
\* the kind's range, ends included (AGL: 10 .. 2500).
C9_SampledTripleWellFormed ==
    \A k \in 1 .. Len(triggers) :
        ~Forced(triggers[k][1]) =>
            LET kind  == triggers[k][2]
                param == triggers[k][3]
                range == get_parameter_range_for_failure_state(config, kind)
            IN  /\ kind \in FailureState \ {NOT_FAILED, WAYPOINT, CTRL_F}
                /\ ~ZeroMultiplier(kind)
                /\ (param = None) <=> (kind \in {ACTIVE, GEAR_UP, GEAR_DOWN, GEAR_CYCLED})
                /\ (param = None) <=> (range = None)
                /\ param # None => range[1][1] <= param[1] /\ param[1] <= range[1][2]
                /\ (kind = AGL) => (10 <= param[1] /\ param[1] <= 2500)

\* C9 witness: a sampled AGL triple at the upper end of the range, the other
\* kinds but GEAR_UP having multiplier 0
C9_Witness ==
    /\ Len(triggers) = 1
    /\ ZeroMultiplier(IAS)
    /\ ~Forced(triggers[1][1]) /\ triggers[1][2] = AGL /\ triggers[1][3] = Some(2500)

====
